---- MODULE Spec2Model ----
(***************************************************************************)
(* Dormitory management demo: the sample-data generator                    *)
(* (create_dorm_database.py), the tool/resource dispatcher                 *)
(* (dorm_mcp_server.py) and the retrieval-augmented chat loop              *)
(* (dorm_rag_system.py), modelled from the sources under src/File.         *)
(*                                                                         *)
(* Text is a sequence of one-character strings, so that upper(), strip(),  *)
(* startswith() and the substring test `k in s` are computed, not assumed. *)
(***************************************************************************)
EXTENDS Integers, Sequences, FiniteSets, TLC

(***************************************************************************)
(* Bounds of the model.                                                    *)
(***************************************************************************)
\* floors the generator is run with, one room on each (the script: 3
\* floors of 5 rooms)
MaxFloors == 1
\* students the generator is run with (the script: 40)
MaxStudents == 5
\* maintenance requests generated (the script: 15)
NumRequests == 1
\* chat turns of one session of the chat loop
MaxTurns == 12
\* words a query text is put together from
MaxWords == 3
\* floors of the stores the dispatcher is started on (the script: 3)
ServeFloors == 2
MaxBuckets == 4
MaxCount == 4
SessionTurns == 1

(***************************************************************************)
(* Program constants.                                                      *)
(***************************************************************************)
\* capacity every generated room gets
RoomCapacity == 4
\* a room is offered to the next student while it has fewer records
FullAt == 4
\* self.max_history_length
max_history_length == 10
\* the script makes the first 12 of its 40 students "Checked Out"
CheckedOutInScript == 12
StudentsInScript == 40
ContextSize == 5
FloorsInScript == 3

(***************************************************************************)
(* Text.                                                                   *)
(***************************************************************************)
Lower == <<"a","b","c","d","e","f","g","h","i","j","k","l","m",
           "n","o","p","q","r","s","t","u","v","w","x","y","z">>
Capital == <<"A","B","C","D","E","F","G","H","I","J","K","L","M",
             "N","O","P","Q","R","S","T","U","V","W","X","Y","Z">>
Digits == <<"0","1","2","3","4","5","6","7","8","9">>
Whitespace == {" ", "\t", "\n"}

\* str.upper() on one character
UpperChar(c) ==
    IF \E i \in 1..26 : Lower[i] = c
    THEN Capital[CHOOSE i \in 1..26 : Lower[i] = c]
    ELSE c

\* str.lower() on one character
LowerChar(c) ==
    IF \E i \in 1..26 : Capital[i] = c
    THEN Lower[CHOOSE i \in 1..26 : Capital[i] = c]
    ELSE c

\* str.lower()
LowerCase(s) == [i \in 1..Len(s) |-> LowerChar(s[i])]

\* str.upper()
Upper(s) == [i \in 1..Len(s) |-> UpperChar(s[i])]

\* s.startswith(p)
StartsWith(s, p) == Len(p) <= Len(s) /\ SubSeq(s, 1, Len(p)) = p

\* k in s
Contains(s, k) ==
    \E i \in 0..(Len(s) - Len(k)) : SubSeq(s, i + 1, i + Len(k)) = k

\* str.strip()
Strip(s) ==
    LET keep == {i \in 1..Len(s) : s[i] \notin Whitespace}
    IN  IF keep = {} THEN <<>>
        ELSE LET lo == CHOOSE i \in keep : \A j \in keep : i <= j
                 hi == CHOOSE i \in keep : \A j \in keep : j <= i
             IN  SubSeq(s, lo, hi)

\* the decimal digit of n, 0 <= n <= 9
DigitChar(n) == Digits[n + 1]

RECURSIVE Cat(_)
\* the words of ws, one after the other
Cat(ws) == IF ws = <<>> THEN <<>> ELSE Head(ws) \o Cat(Tail(ws))

(***************************************************************************)
(* State.                                                                  *)
(***************************************************************************)
VARIABLES
    \* parameters of the generator run
    numFloors, numStudents,
    \* the generator script: position and locals
    gpc, student_idx, room_occupancy, occupancy_records,
    \* the committed content of dormitory.db
    tables, rooms, students, occupancy, maintenance,
    \* the dispatcher: request in flight, last operation, its outcome,
    \* and what it did with store connections
    request, call, result, connection,
    \* the chat loop
    rag, conversation_history, turns, evicted,
    \* the five chroma collections
    vector_store

genVars == <<numFloors, numStudents,
             gpc, student_idx, room_occupancy, occupancy_records>>
store == <<tables, rooms, students, occupancy, maintenance>>
callVars == <<request, call, result, connection>>
chatVars == <<rag, conversation_history, turns, evicted, vector_store>>
vars == <<genVars, store, callVars, chatVars>>

AllTables == {"rooms", "students", "occupancy", "maintenance"}
NoRequest == [op |-> "none"]
NoCall == [op |-> "none"]
NoResult == [kind |-> "none", tag |-> "none", lines |-> <<>>]
NoConnection == [opened |-> 0, commits |-> 0, closed |-> 0]
\* the collections as get_or_create_collection leaves them
NoIndex == [students |-> <<>>, rooms |-> <<>>, occupancy |-> <<>>,
            maintenance |-> <<>>, schema |-> <<>>]

(***************************************************************************)
(* The generator.                                                          *)
(***************************************************************************)
\* floor of the r-th generated room: the model runs the inner loop once,
\* so that room r is room 1 of floor r
FloorOf(r) == r

\* f"{floor}0{room_num}"
RoomNumberOf(r) == <<DigitChar(FloorOf(r)), "0", DigitChar(1)>>

\* the rows of rooms after the insert loop
GenRooms(n) ==
    [r \in 1..n |-> [room_id |-> r, floor |-> FloorOf(r),
                     room_number |-> RoomNumberOf(r),
                     capacity |-> RoomCapacity]]

\* f"STU{2023000 + i}"
StudentIdOf(i) ==
    <<"S","T","U","2","0","2","3","0", DigitChar(i \div 10), DigitChar(i % 10)>>

Names == {<<"A","l","e","x"," ","L","e","e">>}
Programs == {"Physics"}

\* status = "Checked Out" if i <= 12 else "Active", 12 of 40 scaled to n
CheckedOutCount(n) == (n * CheckedOutInScript) \div StudentsInScript

\* the rows of students after the insert loop
GenStudents(n, k) ==
    [i \in 1..n |-> [student_id |-> StudentIdOf(i),
                     name |-> CHOOSE nm \in Names : TRUE,
                     program |-> CHOOSE p \in Programs : TRUE,
                     status |-> IF i <= k THEN "Checked Out" ELSE "Active"]]

\* month offsets a check-in date can fall in
CheckInMonths == {1, 2}

\* a faulty variant: check_out stays None for every student
OccupancyRecordNeverOut(i, rid, m, n) ==
    [student_id |-> StudentIdOf(i), room_id |-> rid, check_in_date |-> m,
     check_out_date |-> 0]

\* occupancy_records.append((student_id, rid, check_in, check_out)) for the
\* i-th of n students: check_out is set for those "Checked Out", else None
OccupancyRecord(i, rid, m, n) ==
    [student_id |-> StudentIdOf(i), room_id |-> rid, check_in_date |-> m,
     check_out_date |-> IF i <= CheckedOutCount(n) THEN m + 1 ELSE 0]

\* the rows of occupancy the records are inserted as
OccupancyTable(records) ==
    [i \in 1..Len(records) |->
       [occupancy_id |-> i,
        student_id |-> records[i].student_id,
        room_id |-> records[i].room_id,
        check_in_date |-> records[i].check_in_date,
        check_out_date |-> records[i].check_out_date]]

\* the rows of maintenance for the rooms and statuses drawn
MaintenanceTable(reqs) ==
    [i \in DOMAIN reqs |->
       [request_id |-> i, room_id |-> reqs[i][1],
        issue_description |-> "Leaking faucet",
        status |-> reqs[i][2], reported_date |-> 1,
        resolved_date |-> IF reqs[i][2] = "Resolved" THEN 2 ELSE 0]]

\* a faulty variant: a room is offered until it has more than FullAt records
AvailableRoomsOffByOne(occ) == {rid \in DOMAIN occ : occ[rid] <= FullAt}

\* [rid for rid, cnt in room_occupancy.items() if cnt < 4]
AvailableRooms(occ) == {rid \in DOMAIN occ : occ[rid] < FullAt}

\* CREATE TABLE IF NOT EXISTS ...: outside any transaction, so visible at once
GenCreateTables ==
    /\ gpc = "create"
    /\ tables' = AllTables
    /\ gpc' = "insert"
    /\ UNCHANGED <<numFloors, numStudents, student_idx,
                   room_occupancy, occupancy_records>>
    /\ UNCHANGED <<rooms, students, occupancy, maintenance>>
    /\ UNCHANGED <<callVars, chatVars>>

\* the room and student inserts (pending until the commit), then
\* room_occupancy = {rid: 0 for rid in room_ids}
GenInsertRows ==
    /\ gpc = "insert"
    /\ room_occupancy' = [rid \in 1..numFloors |-> 0]
    /\ occupancy_records' = <<>>
    /\ student_idx' = 1
    /\ gpc' = "occupancy"
    /\ UNCHANGED <<numFloors, numStudents>>
    /\ UNCHANGED <<store, callVars, chatVars>>

\* one iteration of `for student_id, status in student_data` that assigns
GenAssign ==
    /\ gpc = "occupancy"
    /\ student_idx <= numStudents
    /\ \E rid \in AvailableRooms(room_occupancy), m \in CheckInMonths :
         /\ room_occupancy' = [room_occupancy EXCEPT ![rid] = @ + 1]
         /\ occupancy_records' =
               Append(occupancy_records,
                      OccupancyRecord(student_idx, rid, m, numStudents))
    /\ student_idx' = student_idx + 1
    /\ UNCHANGED <<numFloors, numStudents, gpc>>
    /\ UNCHANGED <<store, callVars, chatVars>>

\* the loop ends: every student handled, or `if not available: break`
GenOccupancyDone ==
    /\ gpc = "occupancy"
    /\ \/ student_idx > numStudents
       \/ AvailableRooms(room_occupancy) = {}
    /\ gpc' = "maintenance"
    /\ UNCHANGED <<numFloors, numStudents, student_idx,
                   room_occupancy, occupancy_records>>
    /\ UNCHANGED <<store, callVars, chatVars>>

MaintenanceStatuses == {"Pending", "In Progress", "Resolved"}

\* the maintenance loop, the inserts and conn.commit()
GenCommit ==
    /\ gpc = "maintenance"
    /\ \E reqs \in [1..NumRequests -> (1..numFloors) \X MaintenanceStatuses] :
         maintenance' = MaintenanceTable(reqs)
    /\ rooms' = GenRooms(numFloors)
    /\ students' = GenStudents(numStudents, CheckedOutCount(numStudents))
    /\ occupancy' = OccupancyTable(occupancy_records)
    /\ gpc' = "done"
    /\ UNCHANGED <<numFloors, numStudents, student_idx,
                   room_occupancy, occupancy_records, tables>>
    /\ UNCHANGED <<callVars, chatVars>>

(***************************************************************************)
(* The store as the dispatcher reads it.                                   *)
(***************************************************************************)
\* the elements of seq that satisfy Test, in order
RECURSIVE SelectIdx(_, _)
SelectIdx(seq, keep) ==
    IF seq = <<>> THEN <<>>
    ELSE IF Len(seq) \in keep
         THEN Append(SelectIdx(SubSeq(seq, 1, Len(seq) - 1), keep), seq[Len(seq)])
         ELSE SelectIdx(SubSeq(seq, 1, Len(seq) - 1), keep)

\* the sequences of seqs, one after the other
RECURSIVE Flatten(_)
Flatten(seqs) == IF seqs = <<>> THEN <<>> ELSE Head(seqs) \o Flatten(Tail(seqs))

\* occupancy rows of room rid with check_out_date IS NULL
OpenIn(occ, rid) ==
    {i \in DOMAIN occ : occ[i].room_id = rid /\ occ[i].check_out_date = 0}

\* COUNT(*) of them
OpenCount(occ, rid) == Cardinality(OpenIn(occ, rid))

\* what cursor.execute raises, as the row execute_query returns for it
ErrorRow(msg) == <<[error |-> msg]>>

\* cur.execute(query); cur.fetchall() for one of the fixed statements: rows
\* when the SQL is well formed and its tables exist, else the error row
Select(needs, malformed, rows) ==
    IF malformed THEN ErrorRow("syntax error")
    ELSE IF ~(needs \subseteq tables) THEN ErrorRow("no such table")
    ELSE rows

\* a faulty variant: the connection is not closed
OneConnectionLeftOpen == [opened |-> 1, commits |-> 0, closed |-> 0]

\* every execute_query call: connect, execute, close, no commit
OneConnection == [opened |-> 1, commits |-> 0, closed |-> 1]

Return(tag, lines) == [kind |-> "return", tag |-> tag, lines |-> lines]
Raise(exc) == [kind |-> "raise", tag |-> exc, lines |-> <<>>]

\* r[k] succeeds for every row r and every k of keys
HasKeys(rows, keys) == \A i \in DOMAIN rows : keys \subseteq DOMAIN rows[i]

\* SELECT sql FROM sqlite_master WHERE type='table'
SchemaRows ==
    LET names == <<"rooms", "students", "occupancy", "maintenance">>
    IN  SelectIdx([i \in 1..4 |-> [sql |-> names[i]]],
                  {i \in 1..4 : names[i] \in tables})

\* rooms r LEFT JOIN occupancy o ... GROUP BY r.room_id ORDER BY r.floor, ...
OccupancyRows ==
    [i \in DOMAIN rooms |->
       [floor |-> rooms[i].floor, room_number |-> rooms[i].room_number,
        occupied |-> OpenCount(occupancy, rooms[i].room_id),
        capacity |-> rooms[i].capacity]]

\* maintenance m JOIN rooms r ON m.room_id = r.room_id
MaintenanceRows ==
    Flatten([i \in DOMAIN maintenance |->
       [j \in DOMAIN SelectIdx(rooms,
                {k \in DOMAIN rooms : rooms[k].room_id = maintenance[i].room_id}) |->
          [request_id |-> maintenance[i].request_id,
           floor |-> rooms[maintenance[i].room_id].floor,
           room_number |-> rooms[maintenance[i].room_id].room_number,
           issue_description |-> maintenance[i].issue_description,
           status |-> maintenance[i].status,
           reported_date |-> maintenance[i].reported_date]]])

RECURSIVE LikeMatch(_, _)
\* x LIKE pat: % stands for any run of characters, _ for any one character,
\* and SQLite's LIKE ignores the case of ASCII letters
LikeMatch(x, pat) ==
    IF pat = <<>> THEN x = <<>>
    ELSE IF Head(pat) = "%"
         THEN LikeMatch(x, Tail(pat)) \/ (x # <<>> /\ LikeMatch(Tail(x), pat))
    ELSE /\ x # <<>>
         /\ Head(pat) = "_" \/ UpperChar(Head(x)) = UpperChar(Head(pat))
         /\ LikeMatch(Tail(x), Tail(pat))

\* x LIKE '%{term}%'
Like(x, term) == LikeMatch(x, <<"%">> \o term \o <<"%">>)

\* the interpolated term ends the literal early and text follows it
BreaksLiteral(term) ==
    \E i \in 1..(Len(term) - 1) :
       /\ term[i] = "'"
       /\ \/ \E k \in 1..26 : term[i + 1] \in {Lower[k], Capital[k]}
          \/ \E k \in 1..10 : term[i + 1] = Digits[k]

\* the room a student row is joined to: one row per open occupancy record,
\* or one row of NULLs when the student has none
FindStudentJoin(st) ==
    LET open == SelectIdx(occupancy,
                  {i \in DOMAIN occupancy :
                      /\ occupancy[i].student_id = st.student_id
                      /\ occupancy[i].check_out_date = 0})
    IN  IF open = <<>>
        THEN <<[student_id |-> st.student_id, name |-> st.name,
                program |-> st.program, status |-> st.status,
                floor |-> 0, room_number |-> <<>>]>>
        ELSE [j \in DOMAIN open |->
                [student_id |-> st.student_id, name |-> st.name,
                 program |-> st.program, status |-> st.status,
                 floor |-> rooms[open[j].room_id].floor,
                 room_number |-> rooms[open[j].room_id].room_number]]

\* students s LEFT JOIN occupancy o ... LEFT JOIN rooms r ... WHERE ... LIKE
FindStudentRows(search_term) ==
    LET hit == SelectIdx(students,
                 {i \in DOMAIN students :
                     \/ Like(students[i].student_id, search_term)
                     \/ Like(students[i].name, search_term)})
    IN  Flatten([i \in DOMAIN hit |-> FindStudentJoin(hit[i])])

\* a faulty variant: records with a check_out_date are listed as well
RoomOccupantsRowsClosedToo(floor, room_number) ==
    LET open == SelectIdx(occupancy,
                  {i \in DOMAIN occupancy :
                      /\ \E k \in DOMAIN rooms :
                            /\ rooms[k].room_id = occupancy[i].room_id
                            /\ rooms[k].floor = floor
                            /\ rooms[k].room_number = room_number
                      /\ \E k \in DOMAIN students :
                            students[k].student_id = occupancy[i].student_id})
    IN  [j \in DOMAIN open |->
           LET st == students[CHOOSE k \in DOMAIN students :
                         students[k].student_id = open[j].student_id]
           IN  [student_id |-> st.student_id, name |-> st.name,
                program |-> st.program,
                check_in_date |-> open[j].check_in_date]]

\* students s JOIN occupancy o JOIN rooms r WHERE r.floor = .. AND ..
RoomOccupantsRows(floor, room_number) ==
    LET open == SelectIdx(occupancy,
                  {i \in DOMAIN occupancy :
                      /\ occupancy[i].check_out_date = 0
                      /\ \E k \in DOMAIN rooms :
                            /\ rooms[k].room_id = occupancy[i].room_id
                            /\ rooms[k].floor = floor
                            /\ rooms[k].room_number = room_number
                      /\ \E k \in DOMAIN students :
                            students[k].student_id = occupancy[i].student_id})
    IN  [j \in DOMAIN open |->
           LET st == students[CHOOSE k \in DOMAIN students :
                         students[k].student_id = open[j].student_id]
           IN  [student_id |-> st.student_id, name |-> st.name,
                program |-> st.program,
                check_in_date |-> open[j].check_in_date]]

\* an odd number of quotes leaves the literal '{room_number}' unbalanced
OddQuotes(text) ==
    Cardinality({i \in DOMAIN text : text[i] = "'"}) % 2 = 1

\* a faulty variant: closed occupancy records are counted as well
AvailabilityRowsAllRecords ==
    [i \in DOMAIN rooms |->
       [floor |-> rooms[i].floor, room_number |-> rooms[i].room_number,
        capacity |-> rooms[i].capacity,
        occupied |-> Cardinality({j \in DOMAIN occupancy :
                        occupancy[j].room_id = rooms[i].room_id}),
        available |-> rooms[i].capacity -
                      Cardinality({j \in DOMAIN occupancy :
                         occupancy[j].room_id = rooms[i].room_id})]]

\* SELECT r.floor, r.room_number, r.capacity, (SELECT COUNT(*) ...) AS
\* occupied, r.capacity - (SELECT COUNT(*) ...) AS available FROM rooms r
AvailabilityRows ==
    [i \in DOMAIN rooms |->
       [floor |-> rooms[i].floor, room_number |-> rooms[i].room_number,
        capacity |-> rooms[i].capacity,
        occupied |-> OpenCount(occupancy, rooms[i].room_id),
        available |-> rooms[i].capacity - OpenCount(occupancy, rooms[i].room_id)]]

\* SELECT strftime('%Y-%m', check_in_date) AS ym, COUNT(*) AS num ...
\* GROUP BY ym ORDER BY ym (every generated record is younger than a year)
MonthlyRows ==
    LET months == {occupancy[i].check_in_date : i \in DOMAIN occupancy}
        hi == IF months = {} THEN 0
              ELSE CHOOSE m \in months : \A n \in months : n <= m
    IN  SelectIdx([m \in 1..hi |->
                     [ym |-> m,
                      num |-> Cardinality({i \in DOMAIN occupancy :
                                 occupancy[i].check_in_date = m})]],
                  months)

(***************************************************************************)
(* Query text handed to query_database.                                    *)
(***************************************************************************)
W_SELECT == <<"S","E","L","E","C","T">>
W_select == <<"s","e","l","e","c","t">>
W_SP == <<" ">>
W_ONE == <<"1">>
W_SEMI == <<";">>
W_FROM_ROOMS == <<"*"," ","F","R","O","M"," ","r","o","o","m","s">>
W_from_students ==
    <<"*"," ","f","r","o","m"," ","s","t","u","d","e","n","t","s">>
W_DROP_ROOMS == <<"D","R","O","P"," ","T","A","B","L","E"," ","r","o","o","m","s">>
W_drop == <<"d","r","o","p">>
W_UPDATE_ROOMS ==
    <<"U","P","D","A","T","E"," ","r","o","o","m","s"," ","S","E","T"," ",
      "c","a","p","a","c","i","t","y","=","1">>
W_Delete == <<"D","e","l","e","t","e">>
W_INSERT == <<"I","N","S","E","R","T">>
W_ALTER == <<"A","L","T","E","R">>
W_CREATE == <<"C","R","E","A","T","E">>
W_AS_error == <<" ","A","S"," ","e","r","r","o","r">>
W_AS_ERROR == <<" ","A","S"," ","E","R","R","O","R">>
\* stands for WITH v AS (...) REPLACE INTO rooms ..., which sets the
\* capacity of room 1 to 1
W_WITH_REPLACE == <<"W","I","T","H"," ","R","E","P","L","A","C","E">>

Vocabulary ==
    {W_SELECT, W_select, W_SP, W_ONE, W_SEMI, W_FROM_ROOMS, W_DROP_ROOMS,
     W_drop, W_UPDATE_ROOMS, W_Delete, W_INSERT, W_ALTER, W_CREATE,
     W_WITH_REPLACE}

\* the texts made of at most n words
RECURSIVE TextsUpTo(_)
TextsUpTo(n) ==
    IF n = 0 THEN {<<>>}
    ELSE LET shorter == TextsUpTo(n - 1)
         IN  shorter \cup {t \o w : t \in shorter, w \in Vocabulary}

SqlTexts == TextsUpTo(MaxWords)

\* the texts the dispatcher is exercised with
SqlSamples ==
    { Cat(<<W_SELECT, W_SP, W_ONE>>),
      Cat(<<W_SP, W_select, W_SP, W_FROM_ROOMS>>),
      Cat(<<W_select, W_SP, W_from_students, W_SEMI, W_SP, W_DROP_ROOMS>>),
      W_UPDATE_ROOMS,
      W_WITH_REPLACE,
      Cat(<<W_SELECT, W_SP, W_ONE, W_SEMI, W_SP, W_WITH_REPLACE>>),
      Cat(<<W_select, W_SP, W_ONE, W_AS_error>>),
      Cat(<<W_select, W_SP, W_ONE, W_AS_ERROR>>) }

\* forbidden = ["DROP", "DELETE", "UPDATE", "INSERT", "ALTER", "CREATE"]
Forbidden ==
    { <<"D","R","O","P">>, <<"D","E","L","E","T","E">>,
      <<"U","P","D","A","T","E">>, W_INSERT, W_ALTER, W_CREATE }

\* a faulty variant: the keywords are looked for in the text as written
PassesFilterCaseSensitive(sql_query) ==
    /\ ~ \E k \in Forbidden : Contains(sql_query, k)
    /\ StartsWith(Upper(Strip(sql_query)), W_SELECT)

\* a faulty variant: the test that the text starts with SELECT is left out
PassesFilterNoPrefix(sql_query) ==
    ~ \E k \in Forbidden : Contains(Upper(sql_query), k)

\* the two tests of query_database that come before the store is touched
PassesFilter(sql_query) ==
    /\ ~ \E k \in Forbidden : Contains(Upper(sql_query), k)
    /\ StartsWith(Upper(Strip(sql_query)), W_SELECT)

\* more than one statement: something other than blanks follows a ';'
MultiStatement(text) ==
    \E i \in DOMAIN text :
       /\ text[i] = ";"
       /\ \E j \in (i + 1)..Len(text) : text[j] \notin Whitespace

\* a closing ';' and the blanks before it are not part of the statement
DropSemicolon(t) ==
    IF t # <<>> /\ t[Len(t)] = ";" THEN Strip(SubSeq(t, 1, Len(t) - 1)) ELSE t

\* the one statement of the text, upper-cased, blanks and closing ';' off
StatementOf(text) == Upper(DropSemicolon(Strip(text)))

IsNumber(t) ==
    t # <<>> /\ \A i \in DOMAIN t : \E k \in 1..10 : t[i] = Digits[k]

\* the statement is SELECT followed by a blank and more
IsSelect(st) ==
    /\ StartsWith(st, W_SELECT)
    /\ Len(st) > Len(W_SELECT)
    /\ st[Len(W_SELECT) + 1] \in Whitespace

\* what follows the word SELECT
SelectRest(st) ==
    IF StartsWith(st, W_SELECT)
    THEN Strip(SubSeq(st, Len(W_SELECT) + 1, Len(st))) ELSE <<>>

\* a statement that fetches rows and leaves the store alone
Fetched(rows) ==
    [rows |-> rows, kept |-> FALSE, rooms |-> rooms, tables |-> tables]

\* a statement that fetches nothing and writes
Written(kept, rooms_after, tables_after) ==
    [rows |-> <<>>, kept |-> kept, rooms |-> rooms_after, tables |-> tables_after]

\* cur.execute on the one statement st, SELECT being followed by rest
ExecuteStatement(st, rest) ==
    IF st = <<>> THEN Fetched(<<>>)
    ELSE IF IsSelect(st) /\ IsNumber(rest)
      THEN Fetched(<<[literal |-> rest]>>)
    ELSE IF IsSelect(st) /\ rest = Upper(W_FROM_ROOMS)
      THEN Fetched(Select({"rooms"}, FALSE, rooms))
    ELSE IF st = Upper(W_UPDATE_ROOMS) /\ "rooms" \in tables
      THEN Written(FALSE,
                   [i \in DOMAIN rooms |-> [rooms[i] EXCEPT !.capacity = 1]],
                   tables)
    ELSE IF st = Upper(W_WITH_REPLACE) /\ "rooms" \in tables
      THEN Written(TRUE,
                   [i \in DOMAIN rooms |->
                      IF rooms[i].room_id = 1
                      THEN [rooms[i] EXCEPT !.capacity = 1] ELSE rooms[i]],
                   tables)
    ELSE IF st = Upper(W_DROP_ROOMS) /\ "rooms" \in tables
      THEN Written(TRUE, <<>>, tables \ {"rooms"})
    ELSE IF st \in {Upper(W_UPDATE_ROOMS), Upper(W_WITH_REPLACE),
                    Upper(W_DROP_ROOMS)}
      THEN Fetched(ErrorRow("no such table"))
    ELSE Fetched(ErrorRow("syntax error"))

\* the statement is SELECT 1 AS <name>, the name being error in some case
NamesColumn(text) ==
    /\ IsSelect(StatementOf(text))
    /\ SelectRest(StatementOf(text)) = W_ONE \o W_AS_ERROR

\* its one row: dict(r) keeps the column name as the statement writes it
NamedRow(text) ==
    IF SubSeq(DropSemicolon(Strip(text)),
              Len(DropSemicolon(Strip(text))) - 4,
              Len(DropSemicolon(Strip(text)))) = <<"e","r","r","o","r">>
    THEN <<[error |-> "1"]>>
    ELSE <<[ERROR |-> "1"]>>

\* cur.execute(text) on the connection of execute_query: the rows fetched,
\* the store as the statement leaves it, and whether that is kept when the
\* connection is closed without a commit. sqlite3 opens a transaction
\* before a statement whose first word is INSERT, UPDATE, DELETE or
\* REPLACE; every other statement runs in autocommit mode.
ExecuteText(text) ==
    IF MultiStatement(text)
    THEN Fetched(ErrorRow("one statement at a time"))
    ELSE IF NamesColumn(text) THEN Fetched(NamedRow(text))
    ELSE ExecuteStatement(StatementOf(text), SelectRest(StatementOf(text)))

\* conn.close() without a commit: nothing uncommitted survives
AfterClose(x) ==
    [rows |-> x.rows,
     rooms |-> IF x.kept THEN x.rooms ELSE rooms,
     tables |-> IF x.kept THEN x.tables ELSE tables]

\* DatabaseConnection.execute_query on a text: the rows, and the store after
ExecuteQueryText(text) == AfterClose(ExecuteText(text))

(***************************************************************************)
(* The dispatcher: what each resource or tool returns.                     *)
(***************************************************************************)
\* get_schema
GetSchemaResult ==
    LET items == Select({}, FALSE, SchemaRows)
    IN  Return("schema",
               SelectIdx(items, {i \in DOMAIN items : "sql" \in DOMAIN items[i]}))

\* get_students
GetStudentsResult ==
    LET rows == Select({"students"}, FALSE, students)
    IN  IF HasKeys(rows, {"student_id", "name", "status"})
        THEN Return("students",
                    [i \in DOMAIN rows |->
                       [student_id |-> rows[i].student_id,
                        name |-> rows[i].name, status |-> rows[i].status]])
        ELSE Raise("KeyError")

\* a faulty variant: get_rooms answers with the capacity the rooms were made with
GetRoomsResultStale ==
    LET rows == Select({"rooms"}, FALSE, rooms)
    IN  IF HasKeys(rows, {"room_number", "floor", "capacity"})
        THEN Return("rooms",
                    [i \in DOMAIN rows |->
                       [room_number |-> rows[i].room_number,
                        floor |-> rows[i].floor,
                        capacity |-> RoomCapacity]])
        ELSE Raise("KeyError")

\* get_rooms
GetRoomsResult ==
    LET rows == Select({"rooms"}, FALSE, rooms)
    IN  IF HasKeys(rows, {"room_number", "floor", "capacity"})
        THEN Return("rooms",
                    [i \in DOMAIN rows |->
                       [room_number |-> rows[i].room_number,
                        floor |-> rows[i].floor,
                        capacity |-> rows[i].capacity]])
        ELSE Raise("KeyError")

\* get_occupancy
GetOccupancyResult ==
    LET rows == Select({"rooms", "occupancy"}, FALSE, OccupancyRows)
    IN  IF HasKeys(rows, {"room_number", "floor", "occupied", "capacity"})
        THEN Return("occupancy", rows)
        ELSE Raise("KeyError")

\* get_maintenance
GetMaintenanceResult ==
    LET rows == Select({"rooms", "maintenance"}, FALSE, MaintenanceRows)
    IN  IF HasKeys(rows, {"request_id", "room_number", "floor",
                          "issue_description", "status"})
        THEN Return("maintenance",
                    [i \in DOMAIN rows |->
                       [request_id |-> rows[i].request_id,
                        room_number |-> rows[i].room_number,
                        floor |-> rows[i].floor,
                        issue_description |-> rows[i].issue_description,
                        status |-> rows[i].status]])
        ELSE Raise("KeyError")

\* find_student
FindStudentResult(search_term) ==
    LET rows == Select({"students", "occupancy", "rooms"},
                       BreaksLiteral(search_term),
                       FindStudentRows(search_term))
    IN  IF rows = <<>> THEN Return("no_students", <<>>)
        ELSE IF HasKeys(rows, {"student_id", "name", "program", "status"})
        THEN Return("students_found",
                    [i \in DOMAIN rows |->
                       [student_id |-> rows[i].student_id,
                        name |-> rows[i].name,
                        program |-> rows[i].program,
                        status |-> rows[i].status,
                        room |-> IF rows[i].room_number # <<>>
                                 THEN <<rows[i].room_number, rows[i].floor>>
                                 ELSE <<>>]])
        ELSE Raise("KeyError")

\* room_occupants
RoomOccupantsResult(floor, room_number) ==
    LET rows == Select({"students", "occupancy", "rooms"},
                       OddQuotes(room_number),
                       RoomOccupantsRows(floor, room_number))
    IN  IF rows = <<>> THEN Return("no_occupants", <<>>)
        ELSE IF HasKeys(rows, {"student_id", "name", "program", "check_in_date"})
        THEN Return("occupants", rows)
        ELSE Raise("KeyError")

\* check_availability
CheckAvailabilityResult ==
    LET rows == Select({"rooms", "occupancy"}, FALSE, AvailabilityRows)
    IN  IF HasKeys(rows, {"floor", "room_number", "occupied", "capacity",
                          "available"})
        THEN Return("availability",
               Flatten([f \in 1..3 |->
                  LET on == SelectIdx(rows,
                              {i \in DOMAIN rows : rows[i].floor = f})
                  IN  [j \in DOMAIN on |->
                         [floor |-> f, room_number |-> on[j].room_number,
                          occupied |-> on[j].occupied,
                          capacity |-> on[j].capacity,
                          status |-> IF on[j].available = 0 THEN "FULL"
                                     ELSE "beds available",
                          beds |-> on[j].available]]]))
        ELSE Raise("KeyError")

RECURSIVE Sum(_, _)
\* f[1] + ... + f[n]
Sum(f, n) == IF n = 0 THEN 0 ELSE f[n] + Sum(f, n - 1)

\* the integer part of a / b, b > 0, as astype(int) takes it
Truncate(a, b) == IF a >= 0 THEN a \div b ELSE -((-a) \div b)

\* where the float64 that predict returns lies: below, on or above the
\* exact value of the line (which one depends on the LAPACK build)
FloatErrors == {-1, 0, 1}

\* astype(int) of the float for the exact value a / b, b > 0: a float just
\* below a positive whole number, or just above a negative one, loses one
AsInt(a, b, err) ==
    IF a % b # 0 THEN Truncate(a, b)
    ELSE IF err < 0 /\ a > 0 THEN (a \div b) - 1
    ELSE IF err > 0 /\ a < 0 THEN (a \div b) + 1
    ELSE a \div b

\* LinearRegression().fit(X, y).predict(x0).astype(int) for X = 0..n-1
LinePrediction(y, x0, err) ==
    LET n == Len(y)
        sx == Sum([j \in 1..n |-> j - 1], n)
        sy == Sum(y, n)
        sxy == Sum([j \in 1..n |-> (j - 1) * y[j]], n)
        sxx == Sum([j \in 1..n |-> (j - 1) * (j - 1)], n)
        d == n * sxx - sx * sx
    IN  AsInt(sy * d + (n * sxy - sx * sy) * (n * x0 - sx), n * d, err)

\* the projections of predict_occupancy for the counts y
Projections(y, months_ahead, err) ==
    [i \in 1..months_ahead |->
       [month |-> i, residents |-> LinePrediction(y, Len(y) + i - 1, err[i])]]

\* a faulty variant: one monthly bucket is taken to be enough and projected
\* as a constant
PredictOccupancyResultOneBucket(months_ahead, err) ==
    LET rows == Select({"occupancy"}, FALSE, MonthlyRows)
    IN  IF Len(rows) < 1 THEN Return("not_enough_data", <<>>)
        ELSE IF ~HasKeys(rows, {"num"}) THEN Raise("KeyError")
        ELSE IF months_ahead < 1 THEN Raise("ValueError")
        ELSE IF Len(rows) = 1
        THEN Return("prediction",
                    [i \in 1..months_ahead |->
                       [month |-> i, residents |-> rows[1].num]])
        ELSE Return("prediction",
                    Projections([j \in DOMAIN rows |-> rows[j].num],
                                months_ahead, err))

\* predict_occupancy: predict on an empty future_X raises ValueError
PredictOccupancyResult(months_ahead, err) ==
    LET rows == Select({"occupancy"}, FALSE, MonthlyRows)
    IN  IF Len(rows) < 2 THEN Return("not_enough_data", <<>>)
        ELSE IF ~HasKeys(rows, {"num"}) THEN Raise("KeyError")
        ELSE IF months_ahead < 1 THEN Raise("ValueError")
        ELSE Return("prediction",
                    Projections([j \in DOMAIN rows |-> rows[j].num],
                                months_ahead, err))

\* query_database once execute_query has returned rows: the response
QueryDatabaseResponse(rows) ==
    IF rows = <<>> THEN Return("no_results", <<>>)
    ELSE IF "error" \in DOMAIN rows[1] THEN Return("error", <<rows[1]>>)
    ELSE IF HasKeys(rows, DOMAIN rows[1]) THEN Return("table", rows)
    ELSE Raise("KeyError")

\* query_database past its two tests
QueryDatabaseExecuted(x) ==
    [result |-> QueryDatabaseResponse(x.rows), connection |-> OneConnection,
     rooms |-> x.rooms, tables |-> x.tables]

\* query_database: the response, the connections used and the store after
QueryDatabaseOutcome(sql_query) ==
    IF ~PassesFilter(sql_query)
    THEN [result |-> Return("rejected", <<>>), connection |-> NoConnection,
          rooms |-> rooms, tables |-> tables]
    ELSE QueryDatabaseExecuted(ExecuteQueryText(sql_query))

\* UPDATE rooms SET capacity = ? WHERE room_id = ?
WithCapacity(room_id, new_capacity) ==
    [i \in DOMAIN rooms |->
       IF rooms[i].room_id = room_id
       THEN [rooms[i] EXCEPT !.capacity = new_capacity] ELSE rooms[i]]

\* a faulty variant: a capacity of 0 slips through the validation
UpdateRoomCapacityOutcomeZero(room_id, new_capacity) ==
    IF new_capacity < 0
    THEN [result |-> Return("capacity_rejected", <<>>),
          connection |-> NoConnection, rooms |-> rooms]
    ELSE IF "rooms" \notin tables
    THEN [result |-> Return("update_error", <<>>),
          connection |-> OneConnection, rooms |-> rooms]
    ELSE IF ~ \E i \in DOMAIN rooms : rooms[i].room_id = room_id
    THEN [result |-> Return("no_room", <<>>),
          connection |-> OneConnection, rooms |-> rooms]
    ELSE [result |-> Return("capacity_set", <<>>),
          connection |-> [opened |-> 1, commits |-> 1, closed |-> 1],
          rooms |-> WithCapacity(room_id, new_capacity)]

\* a faulty variant: cur.rowcount is not looked at
UpdateRoomCapacityOutcomeNoRowcount(room_id, new_capacity) ==
    IF new_capacity < 1
    THEN [result |-> Return("capacity_rejected", <<>>),
          connection |-> NoConnection, rooms |-> rooms]
    ELSE IF "rooms" \notin tables
    THEN [result |-> Return("update_error", <<>>),
          connection |-> OneConnection, rooms |-> rooms]
    ELSE [result |-> Return("capacity_set", <<>>),
          connection |-> [opened |-> 1, commits |-> 1, closed |-> 1],
          rooms |-> WithCapacity(room_id, new_capacity)]

\* update_room_capacity: the response, the connections used and the rooms
\* after; the early returns leave without a commit
UpdateRoomCapacityOutcome(room_id, new_capacity) ==
    IF new_capacity < 1
    THEN [result |-> Return("capacity_rejected", <<>>),
          connection |-> NoConnection, rooms |-> rooms]
    ELSE IF "rooms" \notin tables
    THEN [result |-> Return("update_error", <<>>),
          connection |-> OneConnection, rooms |-> rooms]
    ELSE IF ~ \E i \in DOMAIN rooms : rooms[i].room_id = room_id
    THEN [result |-> Return("no_room", <<>>),
          connection |-> OneConnection, rooms |-> rooms]
    ELSE [result |-> Return("capacity_set", <<>>),
          connection |-> [opened |-> 1, commits |-> 1, closed |-> 1],
          rooms |-> WithCapacity(room_id, new_capacity)]

(***************************************************************************)
(* The dispatcher: one action per resource or tool.                        *)
(***************************************************************************)
SearchTerms ==
    { <<"S","T","U">>, <<"l","e","e">>, <<"O","'","B">>, <<"z","z">>,
      <<"0","0","1">>, <<"L","_","e">> }
FloorInputs == {1, 2}
RoomNumberInputs == { <<"1","0","1">>, <<"2","0","1">>, <<"1","'","1">> }
MonthsAhead == {0, 1, 2}
RoomIdInputs == {1, 2, 9}
NewCapacities == {-1, 0, 1, 6}

\* a call that only reads: what the caller gets, one connection per query
Serve(op, args, res, conn) ==
    /\ call' = [op |-> op, args |-> args]
    /\ result' = res
    /\ connection' = conn
    /\ UNCHANGED <<request, genVars, chatVars>>

GetSchema ==
    Serve("get_schema", <<>>, GetSchemaResult, OneConnection)
      /\ UNCHANGED store

GetStudents ==
    Serve("get_students", <<>>, GetStudentsResult, OneConnection)
      /\ UNCHANGED store

GetRooms ==
    Serve("get_rooms", <<>>, GetRoomsResult, OneConnection)
      /\ UNCHANGED store

GetOccupancy ==
    Serve("get_occupancy", <<>>, GetOccupancyResult, OneConnection)
      /\ UNCHANGED store

GetMaintenance ==
    Serve("get_maintenance", <<>>, GetMaintenanceResult, OneConnection)
      /\ UNCHANGED store

FindStudent ==
    \E search_term \in SearchTerms :
       Serve("find_student", [search_term |-> search_term],
             FindStudentResult(search_term), OneConnection)
         /\ UNCHANGED store

RoomOccupants ==
    \E floor \in FloorInputs, room_number \in RoomNumberInputs :
       Serve("room_occupants", [floor |-> floor, room_number |-> room_number],
             RoomOccupantsResult(floor, room_number), OneConnection)
         /\ UNCHANGED store

CheckAvailability ==
    Serve("check_availability", <<>>, CheckAvailabilityResult, OneConnection)
      /\ UNCHANGED store

PredictOccupancy ==
    \E months_ahead \in MonthsAhead :
       \E err \in [1..months_ahead -> FloatErrors] :
          Serve("predict_occupancy", [months_ahead |-> months_ahead],
                PredictOccupancyResult(months_ahead, err), OneConnection)
            /\ UNCHANGED store

\* query_database on the text sql_query
QueryDatabaseCall(sql_query) ==
    /\ call' = [op |-> "query_database", args |-> [sql_query |-> sql_query]]
    /\ \E out \in {QueryDatabaseOutcome(sql_query)} :
          /\ result' = out.result
          /\ connection' = out.connection
          /\ rooms' = out.rooms
          /\ tables' = out.tables
    /\ UNCHANGED <<students, occupancy, maintenance, genVars, chatVars>>

QueryDatabase ==
    \E sql_query \in SqlSamples :
       QueryDatabaseCall(sql_query) /\ UNCHANGED request

\* the tool request in flight is served
ServeQuery ==
    /\ request.op = "query_database"
    /\ QueryDatabaseCall(request.sql_query)
    /\ request' = NoRequest

\* update_room_capacity
UpdateRoomCapacity ==
    /\ \E room_id \in RoomIdInputs, new_capacity \in NewCapacities :
         \E out \in {UpdateRoomCapacityOutcome(room_id, new_capacity)} :
             /\ call' = [op |-> "update_room_capacity",
                         args |-> [room_id |-> room_id,
                                   new_capacity |-> new_capacity]]
             /\ result' = out.result
             /\ connection' = out.connection
             /\ rooms' = out.rooms
    /\ UNCHANGED <<tables, students, occupancy, maintenance>>
    /\ UNCHANGED <<request, genVars, chatVars>>

(***************************************************************************)
(* The chat loop.                                                          *)
(***************************************************************************)
\* how the POST to /api/chat of one turn ends
RemoteOutcomes == {"ok", "no_content", "unreachable", "http_error", "bad_json"}
RemoteFailures == {"unreachable", "http_error", "bad_json"}

\* a document of a collection: the fields its text is written from
Document(index, id, text) == [index |-> index, id |-> id, text |-> text]

\* the documents initialize_database writes for the rows it reads; a query
\* on a missing table raises, and nothing after it is loaded
LoadedIndex ==
    [schema |->
        [i \in DOMAIN SchemaRows |-> Document("schema", i, SchemaRows[i])],
     students |->
        IF "students" \notin tables THEN <<>>
        ELSE [i \in DOMAIN students |->
                Document("students", i,
                         [student_id |-> students[i].student_id,
                          name |-> students[i].name,
                          program |-> students[i].program,
                          status |-> students[i].status])],
     rooms |->
        IF ~({"students", "rooms"} \subseteq tables) THEN <<>>
        ELSE [i \in DOMAIN rooms |->
                Document("rooms", rooms[i].room_id,
                         [floor |-> rooms[i].floor,
                          room_number |-> rooms[i].room_number,
                          capacity |-> rooms[i].capacity])],
     occupancy |->
        IF ~({"students", "rooms", "occupancy"} \subseteq tables) THEN <<>>
        ELSE LET occs == SelectIdx(occupancy,
                            {i \in DOMAIN occupancy :
                                /\ \E k \in DOMAIN students :
                                      students[k].student_id =
                                         occupancy[i].student_id
                                /\ \E k \in DOMAIN rooms :
                                      rooms[k].room_id = occupancy[i].room_id})
             IN  [i \in DOMAIN occs |->
                    Document("occupancy", occs[i].occupancy_id,
                             [student_id |-> occs[i].student_id,
                              room_id |-> occs[i].room_id,
                              check_in_date |-> occs[i].check_in_date,
                              check_out_date |-> occs[i].check_out_date])],
     maintenance |->
        IF ~(AllTables \subseteq tables) THEN <<>>
        ELSE [i \in DOMAIN MaintenanceRows |->
                Document("maintenance", MaintenanceRows[i].request_id,
                         [room_number |-> MaintenanceRows[i].room_number,
                          status |-> MaintenanceRows[i].status])]]

\* initialize_database at startup: it reads all four tables, and an
\* sqlite3 error in it is caught nowhere
InitializeDatabase ==
    /\ rag = "off"
    /\ rag' = IF AllTables \subseteq tables THEN "awaiting_input" ELSE "crashed"
    /\ call' = [op |-> "initialize_database", args |-> <<>>]
    /\ result' = IF AllTables \subseteq tables THEN Return("loaded", <<>>)
                 ELSE Raise("OperationalError")
    /\ connection' = IF AllTables \subseteq tables
                     THEN OneConnection
                     ELSE [opened |-> 1, commits |-> 0, closed |-> 0]
    /\ vector_store' = LoadedIndex
    /\ UNCHANGED <<conversation_history, turns, evicted>>
    /\ UNCHANGED <<request, genVars, store>>

\* the order in which query_vector_store goes through the collections
Collections == <<"students", "rooms", "occupancy", "maintenance", "schema">>

\* a query text is told by the order of distance its embedding puts the
\* documents of a collection in
Queries == {"nearest_first", "nearest_last"}
KValues == {0, 1, 2, 5}

\* the documents of a collection, nearest to the query first
Ranked(docs, query) ==
    IF query = "nearest_first" THEN docs
    ELSE [i \in 1..Len(docs) |-> docs[Len(docs) + 1 - i]]

\* col.query(query_texts=[query], n_results=n)["documents"][0]; chroma
\* raises when n is not positive, and the except clause passes
Nearest(docs, query, n) ==
    IF n < 1 THEN <<>> ELSE SubSeq(Ranked(docs, query), 1, n)

\* min(a, b)
Min(a, b) == IF a <= b THEN a ELSE b

\* results when the for loop is over
Gathered(index, query, k) ==
    Flatten([c \in 1..Len(Collections) |->
               Nearest(index[Collections[c]], query,
                       Min(k, Len(index[Collections[c]])))])

\* a faulty variant: the gathered list is returned whole
QueryVectorStoreResultWhole(index, query, k) == Gathered(index, query, k)

\* return results[:k]
QueryVectorStoreResult(index, query, k) ==
    SubSeq(Gathered(index, query, k), 1, Min(k, Len(Gathered(index, query, k))))

\* query_vector_store(query, k)
QueryVectorStore ==
    /\ rag = "awaiting_input"
    /\ \E query \in Queries, k \in KValues :
          /\ call' = [op |-> "query_vector_store",
                      args |-> [query |-> query, k |-> k]]
          /\ result' = Return("documents",
                              QueryVectorStoreResult(vector_store, query, k))
    /\ connection' = NoConnection
    /\ UNCHANGED <<request, genVars, store, chatVars>>

\* a history entry; its content is told by the turn that produced it
Message(role, turn) == [role |-> role, turn |-> turn]

\* a faulty variant: the slice drops one entry
AfterEvictionOfOne(history) ==
    IF Len(history) >= max_history_length * 2
    THEN SubSeq(history, 2, Len(history)) ELSE history

\* if len(history) >= max_history_length * 2: history = history[2:]
AfterEviction(history) ==
    IF Len(history) >= max_history_length * 2
    THEN SubSeq(history, 3, Len(history)) ELSE history

\* the entries that slice drops
Dropped(history) ==
    IF Len(history) >= max_history_length * 2
    THEN SubSeq(history, 1, 2) ELSE <<>>

\* a faulty variant: the assistant entry is appended whatever the remote call did
AfterReplyAlways(history, turn, outcome) ==
    Append(history, Message("assistant", turn))

\* inside try: the assistant entry is appended once the reply is parsed,
\* so not when requests.post, raise_for_status or resp.json raised
AfterReply(history, turn, outcome) ==
    IF outcome \in RemoteFailures THEN history
    ELSE Append(history, Message("assistant", turn))

\* what query_ollama returns
OllamaResult(outcome) ==
    IF outcome = "ok" THEN Return("reply", <<>>)
    ELSE IF outcome = "no_content" THEN Return("no_response", <<>>)
    ELSE Return("ollama_error", <<[error |-> outcome]>>)

\* system_msg, with the context when there is one
SystemMessage(context) == [role |-> "system", context |-> context]

\* a faulty variant: the list is put together before the eviction
MessagesSentUnevicted(history, turn, context) ==
    <<SystemMessage(context)>> \o Append(history, Message("user", turn))

\* messages = [{"role": "system", ...}] + self.conversation_history, taken
\* once the eviction is done and the user entry appended
MessagesSent(history, turn, context) ==
    <<SystemMessage(context)>> \o
       Append(AfterEviction(history), Message("user", turn))

\* query_ollama(prompt, context)
QueryOllama(outcome, context) ==
    /\ rag = "awaiting_input"
    /\ turns' = turns + 1
    /\ evicted' = Dropped(conversation_history)
    /\ conversation_history' =
          AfterReply(Append(AfterEviction(conversation_history),
                            Message("user", turns + 1)),
                     turns + 1, outcome)
    /\ call' = [op |-> "query_ollama",
                args |-> [remote |-> outcome,
                          messages |-> MessagesSent(conversation_history,
                                                    turns + 1, context)]]
    /\ result' = OllamaResult(outcome)
    /\ connection' = NoConnection
    /\ UNCHANGED <<genVars, store>>

\* the context of a turn: query_vector_store(user_input, k=5)
Contexts ==
    {QueryVectorStoreResult(vector_store, query, ContextSize) : query \in Queries}

\* a chat turn of a session
ChatTurn ==
    /\ turns < MaxTurns
    /\ \E outcome \in RemoteOutcomes, context \in Contexts :
          QueryOllama(outcome, context)
    /\ UNCHANGED <<rag, request, vector_store>>

\* what is typed at the prompt
InputLines ==
    { <<"e","x","i","t">>, <<" ","Q","U","I","T"," ">>, <<"E","x","i","t">>,
      <<>>, <<" "," ">>, <<"h","e","l","l","o">>,
      <<"e","x","i","t"," ","n","o","w">> }

ExitWords == { <<"e","x","i","t">>, <<"q","u","i","t">> }

\* a faulty variant: an empty line is not taken as the end
TerminatesOnWordOnly(user_input) == LowerCase(user_input) \in ExitWords

\* a faulty variant: the words are looked for as typed
TerminatesCaseSensitive(user_input) ==
    user_input = <<>> \/ user_input \in ExitWords

\* not user_input or user_input.lower() in ("exit", "quit")
Terminates(user_input) ==
    user_input = <<>> \/ LowerCase(user_input) \in ExitWords

\* one pass of the while loop of run_cli on the line read: mcp_session has
\* no call method, the AttributeError is caught, and the turn falls back
\* to query_vector_store(user_input, k=5) and query_ollama
LoopIteration(line) ==
    /\ rag = "awaiting_input"
    /\ request' = [op |-> "input", line |-> line]
    /\ IF Terminates(Strip(line))
       THEN /\ rag' = "terminated"
            /\ call' = [op |-> "run_cli", args |-> <<>>]
            /\ result' = Return("exiting", <<>>)
            /\ connection' = NoConnection
            /\ UNCHANGED <<conversation_history, turns, evicted>>
            /\ UNCHANGED <<genVars, store>>
       ELSE /\ turns < SessionTurns
            /\ rag' = rag
            /\ \E outcome \in RemoteOutcomes, context \in Contexts :
                  QueryOllama(outcome, context)

\* input() at end of input: EOFError, caught nowhere
EndOfInput ==
    /\ rag = "awaiting_input"
    /\ request' = [op |-> "eof"]
    /\ rag' = "crashed"
    /\ call' = [op |-> "run_cli", args |-> <<>>]
    /\ result' = Raise("EOFError")
    /\ connection' = NoConnection
    /\ UNCHANGED <<conversation_history, turns, evicted>>
    /\ UNCHANGED <<genVars, store>>

\* a faulty variant: the collections are loaded again on every pass
RunCliReloading ==
    /\ (\E line \in InputLines : LoopIteration(line)) \/ EndOfInput
    /\ vector_store' = LoadedIndex

\* run_cli: one pass of its loop
RunCli ==
    /\ (\E line \in InputLines : LoopIteration(line)) \/ EndOfInput
    /\ UNCHANGED vector_store

(***************************************************************************)
(* Specifications.                                                         *)
(***************************************************************************)
\* nothing has run yet: dormitory.db is empty
Init ==
    /\ numFloors \in 1..MaxFloors
    /\ numStudents \in 0..MaxStudents
    /\ gpc = "create"
    /\ student_idx = 1
    /\ room_occupancy = <<>>
    /\ occupancy_records = <<>>
    /\ tables = {}
    /\ rooms = <<>>
    /\ students = <<>>
    /\ occupancy = <<>>
    /\ maintenance = <<>>
    /\ request = NoRequest
    /\ call = NoCall
    /\ result = NoResult
    /\ connection = NoConnection
    /\ rag = "off"
    /\ conversation_history = <<>>
    /\ turns = 0
    /\ evicted = <<>>
    /\ vector_store = NoIndex

\* one run of the generator script
Next ==
    \/ GenCreateTables
    \/ GenInsertRows
    \/ GenAssign
    \/ GenOccupancyDone
    \/ GenCommit

Spec == Init /\ [][Next]_vars

RECURSIVE FirstFit(_, _, _, _)
\* the records of the run in which student i and every one after takes the
\* lowest-numbered room on offer, checking in in month 1 and 2 by turns
FirstFit(occ, records, i, n) ==
    IF i > n \/ AvailableRooms(occ) = {} THEN records
    ELSE FirstFit([occ EXCEPT ![CHOOSE r \in AvailableRooms(occ) :
                                  \A q \in AvailableRooms(occ) : r <= q] = @ + 1],
                  Append(records,
                         OccupancyRecord(i,
                            CHOOSE r \in AvailableRooms(occ) :
                               \A q \in AvailableRooms(occ) : r <= q,
                            ((i - 1) % 2) + 1, n)),
                  i + 1, n)

\* the store that run of the generator leaves for nf floors and ns students
GeneratedStore(nf, ns) ==
    /\ numFloors = nf
    /\ numStudents = ns
    /\ gpc = "done"
    /\ occupancy_records = FirstFit([rid \in 1..nf |-> 0], <<>>, 1, ns)
    /\ student_idx = Len(occupancy_records) + 1
    /\ room_occupancy =
          [rid \in 1..nf |->
             Cardinality({i \in DOMAIN occupancy_records :
                             occupancy_records[i].room_id = rid})]
    /\ tables = AllTables
    /\ rooms = GenRooms(nf)
    /\ students = GenStudents(ns, CheckedOutCount(ns))
    /\ occupancy = OccupancyTable(occupancy_records)
    /\ maintenance = MaintenanceTable([i \in 1..NumRequests |-> <<1, "Pending">>])

\* the store for one floor and one student
SeededStore == GeneratedStore(1, 1)

\* dormitory.db as sqlite3.connect creates it when the generator never ran
EmptyStore ==
    /\ numFloors = 1
    /\ numStudents = 1
    /\ gpc = "create"
    /\ student_idx = 1
    /\ room_occupancy = <<>>
    /\ occupancy_records = <<>>
    /\ tables = {}
    /\ rooms = <<>>
    /\ students = <<>>
    /\ occupancy = <<>>
    /\ maintenance = <<>>

\* the chat program is started, on the seeded store or on an empty one
InitChat ==
    /\ SeededStore \/ EmptyStore
    /\ request = NoRequest
    /\ call = NoCall
    /\ result = NoResult
    /\ connection = NoConnection
    /\ rag = "off"
    /\ conversation_history = <<>>
    /\ turns = 0
    /\ evicted = <<>>
    /\ vector_store = NoIndex

NextChat == InitializeDatabase \/ ChatTurn

SpecChat == InitChat /\ [][NextChat]_vars

\* the dispatcher on the seeded store, with one query_database request
\* on its way
InitFilter ==
    /\ SeededStore
    /\ request \in [op : {"query_database"}, sql_query : SqlTexts]
    /\ call = NoCall
    /\ result = NoResult
    /\ connection = NoConnection
    /\ rag = "off"
    /\ conversation_history = <<>>
    /\ turns = 0
    /\ evicted = <<>>
    /\ vector_store = NoIndex

NextFilter == ServeQuery

SpecFilter == InitFilter /\ [][NextFilter]_vars

\* the dispatcher is started on a store the generator left, or on an empty one
InitServe ==
    /\ \/ EmptyStore
       \/ \E nf \in 1..ServeFloors, ns \in 0..MaxStudents : GeneratedStore(nf, ns)
    /\ request = NoRequest
    /\ call = NoCall
    /\ result = NoResult
    /\ connection = NoConnection
    /\ rag = "off"
    /\ conversation_history = <<>>
    /\ turns = 0
    /\ evicted = <<>>
    /\ vector_store = NoIndex

\* the resources and tools, called in any order
NextServe ==
    \/ GetSchema
    \/ GetStudents
    \/ GetRooms
    \/ GetOccupancy
    \/ GetMaintenance
    \/ FindStudent
    \/ RoomOccupants
    \/ CheckAvailability
    \/ PredictOccupancy
    \/ QueryDatabase
    \/ UpdateRoomCapacity

SpecServe == InitServe /\ [][NextServe]_vars

\* the store after the generator script was run a second time: CREATE TABLE
\* IF NOT EXISTS and INSERT OR IGNORE leave tables, rooms and students as
\* they are, room_occupancy starts from 0 again, and the plain INSERTs add
\* the occupancy records and maintenance requests of the second run
RegeneratedStore(nf, ns) ==
    /\ numFloors = nf
    /\ numStudents = ns
    /\ gpc = "done"
    /\ occupancy_records = FirstFit([rid \in 1..nf |-> 0], <<>>, 1, ns)
    /\ student_idx = Len(occupancy_records) + 1
    /\ room_occupancy =
          [rid \in 1..nf |->
             Cardinality({i \in DOMAIN occupancy_records :
                             occupancy_records[i].room_id = rid})]
    /\ tables = AllTables
    /\ rooms = GenRooms(nf)
    /\ students = GenStudents(ns, CheckedOutCount(ns))
    /\ occupancy = OccupancyTable(occupancy_records \o occupancy_records)
    /\ maintenance =
          MaintenanceTable([i \in 1..(2 * NumRequests) |-> <<1, "Pending">>])

\* the dispatcher is started on a store the generator was run on twice
InitRerun ==
    /\ \E nf \in 1..MaxFloors, ns \in 0..MaxStudents : RegeneratedStore(nf, ns)
    /\ request = NoRequest
    /\ call = NoCall
    /\ result = NoResult
    /\ connection = NoConnection
    /\ rag = "off"
    /\ conversation_history = <<>>
    /\ turns = 0
    /\ evicted = <<>>
    /\ vector_store = NoIndex

SpecRerun == InitRerun /\ [][NextServe]_vars

\* the month the i-th check-in falls in when y[j] students check in in
\* month j
MonthOfCheckIn(y, i) ==
    CHOOSE j \in DOMAIN y : Sum(y, j - 1) < i /\ i <= Sum(y, j)

\* the store a run of the generator leaves when y[j] students check in in
\* month j, the rooms being filled in turn
StoreWithCounts(y) ==
    /\ numFloors = FloorsInScript
    /\ numStudents = Sum(y, Len(y))
    /\ gpc = "done"
    /\ occupancy_records =
          [i \in 1..Sum(y, Len(y)) |->
             OccupancyRecord(i, ((i - 1) \div FullAt) + 1,
                             MonthOfCheckIn(y, i), Sum(y, Len(y)))]
    /\ student_idx = Len(occupancy_records) + 1
    /\ room_occupancy =
          [rid \in 1..FloorsInScript |->
             Cardinality({i \in DOMAIN occupancy_records :
                             occupancy_records[i].room_id = rid})]
    /\ tables = AllTables
    /\ rooms = GenRooms(FloorsInScript)
    /\ students = GenStudents(numStudents, CheckedOutCount(numStudents))
    /\ occupancy = OccupancyTable(occupancy_records)
    /\ maintenance = MaintenanceTable([i \in 1..NumRequests |-> <<1, "Pending">>])

\* the counts of two to MaxBuckets months that fit the rooms
MonthlyCounts ==
    {y \in UNION {[1..n -> 1..MaxCount] : n \in 2..MaxBuckets} :
        Sum(y, Len(y)) <= FloorsInScript * FullAt}

\* predict_occupancy is asked about a store with the monthly counts y
InitPredict ==
    /\ \E y \in MonthlyCounts : StoreWithCounts(y)
    /\ request = NoRequest
    /\ call = NoCall
    /\ result = NoResult
    /\ connection = NoConnection
    /\ rag = "off"
    /\ conversation_history = <<>>
    /\ turns = 0
    /\ evicted = <<>>
    /\ vector_store = NoIndex

NextPredict == PredictOccupancy

SpecPredict == InitPredict /\ [][NextPredict]_vars

\* the chat program is started on a generated store or an empty one, while
\* the dispatcher serves other callers
InitSession ==
    /\ \/ EmptyStore
       \/ \E nf \in 1..MaxFloors, ns \in {0, 1, MaxStudents} :
             GeneratedStore(nf, ns)
    /\ request = NoRequest
    /\ call = NoCall
    /\ result = NoResult
    /\ connection = NoConnection
    /\ rag = "off"
    /\ conversation_history = <<>>
    /\ turns = 0
    /\ evicted = <<>>
    /\ vector_store = NoIndex

NextSession ==
    \/ InitializeDatabase
    \/ RunCli
    \/ QueryVectorStore
    \/ UpdateRoomCapacity

SpecSession == InitSession /\ [][NextSession]_vars
(***************************************************************************)
(* Properties.                                                             *)
(***************************************************************************)
\* C1: after any number of chat turns, successful or failed, the
\* conversation history holds at most 2 * max_history_length entries.
C1_HistoryBounded ==
    Len(conversation_history) <= 2 * max_history_length

\* the entries of the turn that was served last
EntriesOfLastTurn ==
    {i \in DOMAIN conversation_history : conversation_history[i].turn = turns}

\* C2: whenever query_ollama evicts, the two entries it removes are a user
\* message and the assistant reply to that same message.
C2_EvictsWholePair ==
    evicted # <<>> =>
       /\ evicted[1].role = "user"
       /\ evicted[2].role = "assistant"
       /\ evicted[2].turn = evicted[1].turn

\* C3: when the remote call of a turn fails, query_ollama returns the error
\* string and raises nothing, the turn's user message is the last entry of
\* the history, and the history has no assistant entry for that turn.
C3_FailedTurnKeepsUserOnly ==
    (call.op = "query_ollama" /\ call.args.remote \in RemoteFailures) =>
       /\ result.kind = "return"
       /\ result.tag = "ollama_error"
       /\ conversation_history # <<>>
       /\ conversation_history[Len(conversation_history)] = Message("user", turns)
       /\ \A i \in EntriesOfLastTurn : conversation_history[i].role = "user"

\* a failed turn has been served after earlier turns filled the history
C3_Witness ==
    /\ call.op = "query_ollama"
    /\ call.args.remote = "http_error"
    /\ result.tag = "ollama_error"
    /\ turns > max_history_length
    /\ evicted # <<>>

DispatcherOps ==
    {"get_schema", "get_students", "get_rooms", "get_occupancy",
     "get_maintenance", "find_student", "room_occupants",
     "check_availability", "predict_occupancy", "query_database",
     "update_room_capacity"}

\* C4: no dispatcher operation, on any input and any store, lets an
\* exception reach its caller: a store-access failure comes back as a
\* returned error string.
C4_NoExceptionEscapes ==
    call.op \in DispatcherOps => result.kind = "return"

\* C5: in every state reached from a generated store by dispatcher
\* operations, each room has at most as many open occupancy records as its
\* capacity.
C5_OpenWithinCapacity ==
    \A i \in DOMAIN rooms :
       OpenCount(occupancy, rooms[i].room_id) <= rooms[i].capacity

\* the records the generator has made so far for room rid
RecordsFor(rid) ==
    {i \in DOMAIN occupancy_records : occupancy_records[i].room_id = rid}

\* C6: during and after one run of the generator no room gets more than 4
\* occupancy records, so no committed room has more open records than its
\* capacity of 4, and the loop ends early only when no room with fewer than
\* 4 records is left.
C6_GeneratorWithinCapacity ==
    /\ \A rid \in 1..numFloors : Cardinality(RecordsFor(rid)) <= RoomCapacity
    /\ \A i \in DOMAIN rooms :
          /\ rooms[i].capacity = RoomCapacity
          /\ OpenCount(occupancy, rooms[i].room_id) <= rooms[i].capacity
    /\ (gpc \in {"maintenance", "done"} /\ Len(occupancy_records) < numStudents)
          => \A rid \in 1..numFloors : Cardinality(RecordsFor(rid)) = FullAt

\* the run is over, it stopped assigning because every room was full, and
\* what it committed has a room with 3 open records
C6_Witness ==
    /\ gpc = "done"
    /\ Len(occupancy) < numStudents
    /\ \E i \in DOMAIN rooms :
          /\ Cardinality(RecordsFor(rooms[i].room_id)) = FullAt
          /\ OpenCount(occupancy, rooms[i].room_id) = FullAt - 1

\* the text contains none of the forbidden keywords, whatever its case
NoForbiddenKeyword(text) ==
    \A k \in Forbidden : ~Contains(Upper(text), k)

\* query_database has answered, and it took the text to the store
SentToStore ==
    /\ result.tag # "rejected"
    /\ connection.opened = 1

\* query_database has answered, and it turned the text away untouched
RejectedUnsent ==
    /\ result.tag = "rejected"
    /\ connection = NoConnection

\* C7 as stated: query_database sends the text to the store exactly when
\* the text itself, ignoring case, begins with SELECT and contains none of
\* the forbidden keywords; every other text is rejected before any store
\* access.
C7_SentIffBeginsWithSelect ==
    call.op = "query_database" =>
       /\ SentToStore <=>
             /\ StartsWith(Upper(call.args.sql_query), W_SELECT)
             /\ NoForbiddenKeyword(call.args.sql_query)
       /\ SentToStore \/ RejectedUnsent

\* C7 amended: query_database sends the text to the store exactly when the
\* text with its leading and trailing whitespace removed, ignoring case,
\* begins with SELECT and the text contains none of the forbidden keywords;
\* every other text is rejected before any store access.
C7_SentIffStrippedBeginsWithSelect ==
    call.op = "query_database" =>
       /\ SentToStore <=>
             /\ StartsWith(Upper(Strip(call.args.sql_query)), W_SELECT)
             /\ NoForbiddenKeyword(call.args.sql_query)
       /\ SentToStore \/ RejectedUnsent

\* a text with a forbidden keyword in lower case after SELECT was rejected
C7_Witness ==
    /\ call.op = "query_database"
    /\ StartsWith(call.args.sql_query, W_SELECT)
    /\ Contains(call.args.sql_query, W_drop)
    /\ RejectedUnsent

\* C8: a step of any operation other than update_room_capacity, a
\* query_database whose text passes the filter included, leaves rooms,
\* students, occupancy and maintenance (and the set of tables) as they were.
C8_ReadOnlyOperations ==
    [][call'.op # "update_room_capacity" => store' = store]_vars

\* query_database has run a text that passed its filter and fetched rows
C8_Witness ==
    /\ call.op = "query_database"
    /\ result.tag = "table"
    /\ connection.opened = 1
    /\ rooms # <<>>

\* C9: update_room_capacity with new_capacity < 1 returns the rejection
\* message, opens no store connection and changes no room, whatever room_id.
C9_LowCapacityRejected ==
    [][(call'.op = "update_room_capacity" /\ call'.args.new_capacity < 1) =>
          /\ result' = Return("capacity_rejected", <<>>)
          /\ connection' = NoConnection
          /\ store' = store]_vars

\* a capacity of 0 for a room that exists has been rejected
C9_Witness ==
    /\ call.op = "update_room_capacity"
    /\ call.args.new_capacity = 0
    /\ \E i \in DOMAIN rooms : rooms[i].room_id = call.args.room_id
    /\ result.tag = "capacity_rejected"

\* C10: update_room_capacity with new_capacity >= 1 and a room_id that no
\* row of the rooms table has returns the "no room" message, commits
\* nothing and changes no room.
C10_UnknownRoomUntouched ==
    [][(/\ call'.op = "update_room_capacity"
        /\ call'.args.new_capacity >= 1
        /\ "rooms" \in tables
        /\ \A i \in DOMAIN rooms : rooms[i].room_id # call'.args.room_id) =>
          /\ result' = Return("no_room", <<>>)
          /\ connection'.commits = 0
          /\ store' = store]_vars

\* an accepted capacity for an id no room has was answered with "no room"
C10_Witness ==
    /\ call.op = "update_room_capacity"
    /\ call.args.new_capacity >= 1
    /\ rooms # <<>>
    /\ \A i \in DOMAIN rooms : rooms[i].room_id # call.args.room_id
    /\ result.tag = "no_room"
    /\ connection = OneConnection

\* the reads that report the capacity of rooms
CapacityReads == {"get_rooms", "get_occupancy", "check_availability"}

\* the answer in flight names room r with the capacity r has in the store
ShowsCapacityOf(lines, r) ==
    \E j \in DOMAIN lines :
       /\ lines[j].floor = r.floor
       /\ lines[j].room_number = r.room_number
       /\ lines[j].capacity = r.capacity

\* C11: update_room_capacity with new_capacity >= 1 for a room that exists
\* reports success and sets that room's capacity, changing no other room
\* and no row of students, occupancy or maintenance; no other operation
\* changes a capacity; and get_rooms, get_occupancy and check_availability
\* answer with the capacity the store holds for every room.
C11_UpdatePersists ==
    [][/\ (/\ call'.op = "update_room_capacity"
           /\ call'.args.new_capacity >= 1
           /\ \E i \in DOMAIN rooms : rooms[i].room_id = call'.args.room_id) =>
             /\ result' = Return("capacity_set", <<>>)
             /\ connection'.commits = 1
             /\ DOMAIN rooms' = DOMAIN rooms
             /\ \A i \in DOMAIN rooms :
                   rooms'[i] =
                      IF rooms[i].room_id = call'.args.room_id
                      THEN [rooms[i] EXCEPT !.capacity = call'.args.new_capacity]
                      ELSE rooms[i]
             /\ UNCHANGED <<tables, students, occupancy, maintenance>>
       /\ call'.op # "update_room_capacity" => rooms' = rooms
       /\ (call'.op \in CapacityReads /\ result'.kind = "return") =>
             \A i \in DOMAIN rooms' : ShowsCapacityOf(result'.lines, rooms'[i])
      ]_vars

\* get_rooms answers after room 1 was set to capacity 6: it shows 6 for
\* room 1 and the untouched capacity for another room
C11_Witness ==
    /\ call.op = "get_rooms"
    /\ result.kind = "return"
    /\ \E i, j \in DOMAIN rooms :
          /\ rooms[i].capacity = 6
          /\ rooms[j].capacity = RoomCapacity
          /\ result.lines[i].capacity = 6
          /\ result.lines[j].capacity = RoomCapacity

\* the students whose student_id or name contains term as it is written
HoldersOf(term) ==
    {i \in DOMAIN students :
        \/ Contains(students[i].student_id, term)
        \/ Contains(students[i].name, term)}

\* C12: find_student reports exactly the students whose student_id or name
\* contains search_term as a case-sensitive substring, and returns the "No
\* students found" text exactly when there is no such student.
C12_FindsCaseSensitiveSubstring ==
    (call.op = "find_student" /\ result.kind = "return") =>
       /\ result.tag = "no_students" <=> HoldersOf(call.args.search_term) = {}
       /\ {result.lines[j].student_id : j \in DOMAIN result.lines} =
             {students[i].student_id : i \in HoldersOf(call.args.search_term)}

\* the students the WHERE clause of find_student selects for term
SelectedBy(term) ==
    {i \in DOMAIN students :
        \/ Like(students[i].student_id, term)
        \/ Like(students[i].name, term)}

\* C13: when exactly one student of the store matches search_term,
\* find_student returns exactly one block, and it carries the id of that
\* student, whatever occupancy records the student has.
C13_OneMatchOneBlock ==
    (/\ call.op = "find_student"
     /\ result.kind = "return"
     /\ Cardinality(SelectedBy(call.args.search_term)) = 1) =>
       /\ Len(result.lines) = 1
       /\ \A i \in SelectedBy(call.args.search_term) :
             result.lines[1].student_id = students[i].student_id

\* the occupancy records of the room on floor with room_number
RecordsOfRoom(floor, room_number) ==
    {i \in DOMAIN occupancy :
        \E k \in DOMAIN rooms :
           /\ rooms[k].room_id = occupancy[i].room_id
           /\ rooms[k].floor = floor
           /\ rooms[k].room_number = room_number}

\* those of them that are open
OpenRecordsOfRoom(floor, room_number) ==
    {i \in RecordsOfRoom(floor, room_number) : occupancy[i].check_out_date = 0}

LinesAbout(lines, r) ==
    {j \in DOMAIN lines :
        /\ lines[j].floor = r.floor
        /\ lines[j].room_number = r.room_number}

\* C15: check_availability lists every room of the store exactly once,
\* under its own floor, with occupied equal to the number of open occupancy
\* records of the room and available equal to capacity minus occupied.
C15_AvailabilityPerRoom ==
    (/\ call.op = "check_availability"
     /\ {"rooms", "occupancy"} \subseteq tables) =>
       /\ result.kind = "return"
       /\ Len(result.lines) = Len(rooms)
       /\ \A k \in DOMAIN rooms :
             /\ Cardinality(LinesAbout(result.lines, rooms[k])) = 1
             /\ \A j \in LinesAbout(result.lines, rooms[k]) :
                   /\ result.lines[j].occupied =
                         Cardinality({i \in DOMAIN occupancy :
                            /\ occupancy[i].room_id = rooms[k].room_id
                            /\ occupancy[i].check_out_date = 0})
                   /\ result.lines[j].capacity = rooms[k].capacity
                   /\ result.lines[j].beds =
                         rooms[k].capacity - result.lines[j].occupied
                   /\ (result.lines[j].status = "FULL") <=>
                         (result.lines[j].beds = 0)

\* a report over two floors, with a room that has open records and a closed
\* one
C15_Witness ==
    /\ call.op = "check_availability"
    /\ result.kind = "return"
    /\ \E j, k \in DOMAIN result.lines :
          result.lines[j].floor # result.lines[k].floor
    /\ \E j \in DOMAIN result.lines :
          /\ result.lines[j].occupied > 0
          /\ \E i \in RecordsOfRoom(result.lines[j].floor,
                                    result.lines[j].room_number) :
                occupancy[i].check_out_date # 0

\* the months that have a check-in: the buckets of GROUP BY ym
MonthlyBuckets == {occupancy[i].check_in_date : i \in DOMAIN occupancy}

\* C16: predict_occupancy returns the "Not enough historical data" message
\* and no projection whenever the store yields fewer than two monthly
\* buckets (an occupancy table that is missing yields none), for every
\* value of months_ahead.
C16_TooFewBucketsNoProjection ==
    (/\ call.op = "predict_occupancy"
     /\ \/ "occupancy" \notin tables
        \/ Cardinality(MonthlyBuckets) < 2) =>
       result = Return("not_enough_data", <<>>)

\* the message was returned for a store with exactly one monthly bucket
C16_Witness ==
    /\ call.op = "predict_occupancy"
    /\ "occupancy" \in tables
    /\ Cardinality(MonthlyBuckets) = 1
    /\ call.args.months_ahead > 0
    /\ result = Return("not_enough_data", <<>>)

\* the counts of the monthly buckets, oldest first
CountsOf(months) ==
    [j \in 1..Cardinality(months) |->
       Cardinality({i \in DOMAIN occupancy :
          /\ occupancy[i].check_in_date \in months
          /\ Cardinality({m \in months : m <= occupancy[i].check_in_date}) = j})]

\* the least-squares line through (j - 1, y[j]) at x, as the fraction
\* <<p, q>>, q > 0: ybar + slope * (x - xbar), slope = Sxy / Sxx
LeastSquaresAt(y, x) ==
    LET n == Len(y)
        Sxy == Sum([j \in 1..n |-> (n * (j - 1) - Sum([k \in 1..n |-> k - 1], n))
                                   * (n * y[j] - Sum(y, n))], n)
        Sxx == Sum([j \in 1..n |-> (n * (j - 1) - Sum([k \in 1..n |-> k - 1], n))
                                   * (n * (j - 1) - Sum([k \in 1..n |-> k - 1], n))], n)
    IN  <<Sum(y, n) * Sxx + Sxy * (n * x - Sum([k \in 1..n |-> k - 1], n)),
          n * Sxx>>

\* C17: given n >= 2 monthly buckets with counts y, predict_occupancy
\* returns exactly months_ahead projections, the i-th being the integer
\* value of the least-squares line at index n - 1 + i; for the counts
\* 1, 2, 3, 4 the next-month projection is 5.
C17_ProjectsLeastSquaresLine ==
    (/\ call.op = "predict_occupancy"
     /\ "occupancy" \in tables
     /\ Cardinality(MonthlyBuckets) >= 2) =>
       /\ result.kind = "return"
       /\ result.tag = "prediction"
       /\ Len(result.lines) = call.args.months_ahead
       /\ \A i \in DOMAIN result.lines :
             result.lines[i].residents =
                Truncate(LeastSquaresAt(CountsOf(MonthlyBuckets),
                            Cardinality(MonthlyBuckets) - 1 + i)[1],
                         LeastSquaresAt(CountsOf(MonthlyBuckets),
                            Cardinality(MonthlyBuckets) - 1 + i)[2])
       /\ (CountsOf(MonthlyBuckets) = <<1, 2, 3, 4>> /\ result.lines # <<>>)
             => result.lines[1].residents = 5

\* the number of documents of the result that come from collection c
FromCollection(lines, c) ==
    Cardinality({j \in DOMAIN lines : lines[j].index = Collections[c]})

\* the number of documents in the collections before collection c
SizeBefore(index, c) ==
    Sum([b \in 1..Len(Collections) |-> Len(index[Collections[b]])], c - 1)

C19_IndexIsStartupSnapshot ==
    [][rag # "off" => vector_store' = vector_store]_vars

\* a chat turn ran while the document of a room states a capacity the room
\* no longer has
C19_Witness ==
    /\ call.op = "query_ollama"
    /\ \E i \in DOMAIN rooms, j \in DOMAIN vector_store.rooms :
          /\ vector_store.rooms[j].id = rooms[i].room_id
          /\ vector_store.rooms[j].text.capacity # rooms[i].capacity

\* the line read is exit or quit once trimmed and lower-cased
IsExitWord(line) == LowerCase(Strip(line)) \in ExitWords

\* what the chat loop holds
LoopState == <<rag, conversation_history, turns, evicted, vector_store, request>>

LineRead == rag = "awaiting_input" /\ LoopState' # LoopState /\ request'.op = "input"

\* this step is exactly one chat turn: the context is retrieved from the
\* collections, one remote call is made with it, and the user's text is
\* appended to the history
OneChatTurn ==
    /\ turns' = turns + 1
    /\ call'.op = "query_ollama"
    /\ call'.args.messages[1].context \in Contexts
    /\ Cardinality({i \in DOMAIN conversation_history' :
                      conversation_history'[i] = Message("user", turns')}) = 1
    /\ \A i \in DOMAIN conversation_history' :
          conversation_history'[i].turn = turns' => i >= Len(conversation_history') - 1
    /\ rag' = "awaiting_input"

OpenRecordsOf(student_id) ==
    {i \in DOMAIN occupancy :
        /\ occupancy[i].student_id = student_id
        /\ occupancy[i].check_out_date = 0}

\* the generator had a bed for every student, as with its 15 rooms of
\* capacity 4 and 40 students
BedsForAll == numStudents <= numFloors * FullAt

\* C22: in the store one run of the generator produces when it has a bed
\* for every student, and in every state reached from it by dispatcher
\* operations, a student with status Active has exactly one open occupancy
\* record and a student with status Checked Out has none.
C22_StatusMatchesOpenRecord ==
    (gpc = "done" /\ BedsForAll /\ {"students", "occupancy"} \subseteq tables) =>
       \A k \in DOMAIN students :
          Cardinality(OpenRecordsOf(students[k].student_id)) =
             IF students[k].status = "Active" THEN 1 ELSE 0

\* update_room_capacity has changed a capacity of a store that holds a
\* checked-out student with a closed record and active students
C22_Witness ==
    /\ gpc = "done"
    /\ BedsForAll
    /\ call.op = "update_room_capacity"
    /\ \E i \in DOMAIN rooms : rooms[i].capacity # RoomCapacity
    /\ \E k \in DOMAIN students : students[k].status = "Active"
    /\ \E k \in DOMAIN students :
          /\ students[k].status = "Checked Out"
          /\ \E i \in DOMAIN occupancy :
                /\ occupancy[i].student_id = students[k].student_id
                /\ occupancy[i].check_out_date # 0

\* C23: every dispatcher call opens at most one store connection and has
\* closed it when the call returns or raises, on every path: a query that
\* succeeds, a store error inside execute_query, and in update_room_capacity
\* the success, no-such-room and exception paths.
C23_ConnectionClosedAfterCall ==
    call.op \in DispatcherOps =>
       /\ connection.opened <= 1
       /\ connection.closed = connection.opened
       /\ connection.commits <= connection.opened

\* update_room_capacity came back on its exception path, the store having
\* no rooms table, with its one connection closed
C23_Witness ==
    /\ call.op = "update_room_capacity"
    /\ result.tag = "update_error"
    /\ "rooms" \notin tables
    /\ connection.opened = 1
    /\ connection.closed = 1

\* what str(e) is when sqlite3 raises in execute_query
StoreErrors == {"syntax error", "no such table", "one statement at a time"}

\* the store failed to execute the text
StoreFailed(text) ==
    ExecuteQueryText(text).rows \in {ErrorRow(msg) : msg \in StoreErrors}

\* C24: for a query that passes the filter, query_database returns an error
\* line if and only if the store failed to execute it; a query that
\* executes and yields rows is rendered as a table with one line per row,
\* whatever the column names of the result are, a column named error
\* included.
C24_ErrorLineIffStoreFailed ==
    (/\ call.op = "query_database"
     /\ PassesFilter(call.args.sql_query)) =>
       /\ result.tag = "error" <=> StoreFailed(call.args.sql_query)
       /\ (/\ ~StoreFailed(call.args.sql_query)
           /\ ExecuteQueryText(call.args.sql_query).rows # <<>>) =>
             result = Return("table", ExecuteQueryText(call.args.sql_query).rows)

\* the remote call of the turn served last did not fail
RemoteCallSucceeded ==
    call.op = "query_ollama" => call.args.remote \notin RemoteFailures

\* the history is user, assistant, user, assistant, ..., each assistant
\* entry being the reply of the turn of the user entry before it
Alternates ==
    /\ Len(conversation_history) % 2 = 0
    /\ \A i \in DOMAIN conversation_history :
          IF i % 2 = 1
          THEN conversation_history[i].role = "user"
          ELSE /\ conversation_history[i].role = "assistant"
               /\ conversation_history[i].turn = conversation_history[i - 1].turn

\* C25: if every remote chat call succeeds, then after every turn the
\* conversation history has even length and alternates strictly user,
\* assistant, starting with a user entry, also across evictions, each
\* assistant entry being the reply to the user entry just before it.
C25_AlternatesWhileCallsSucceed ==
    ([]RemoteCallSucceeded) => []Alternates

\* a turn has evicted the oldest pair and the history is full and alternates
C25_Witness ==
    /\ call.op = "query_ollama"
    /\ call.args.remote = "ok"
    /\ evicted # <<>>
    /\ Len(conversation_history) = 2 * max_history_length
    /\ Alternates
    /\ conversation_history[1].turn = turns - max_history_length + 1

\* C26: in every chat turn the message list sent to the remote endpoint is
\* exactly one system message followed by the whole conversation history
\* as it stands after eviction, the turn's user message being its last
\* element; the system message is never stored in the history, which
\* holds only user and assistant entries.
C26_SendsSystemThenHistory ==
    [][(call'.op = "query_ollama" /\ turns' = turns + 1) =>
         /\ call'.args.messages[1].role = "system"
         /\ \A i \in 2..Len(call'.args.messages) :
               call'.args.messages[i].role \in {"user", "assistant"}
         /\ call'.args.messages[Len(call'.args.messages)] =
               Message("user", turns')
         /\ SubSeq(call'.args.messages, 2, Len(call'.args.messages) - 1) =
               SubSeq(conversation_history, Len(evicted') + 1,
                      Len(conversation_history))
         /\ \/ conversation_history' = Tail(call'.args.messages)
            \/ conversation_history' =
                  Append(Tail(call'.args.messages), Message("assistant", turns'))
         /\ \A i \in DOMAIN conversation_history' :
               conversation_history'[i].role \in {"user", "assistant"}]_vars

\* a turn that evicted has sent the system message with a context, the
\* eighteen entries kept and its user message
C26_Witness ==
    /\ call.op = "query_ollama"
    /\ evicted # <<>>
    /\ call.args.messages[1].context # <<>>
    /\ Len(call.args.messages) = 2 * max_history_length
    /\ call.args.messages[2].turn = turns - max_history_length + 1

\* C27: after any sequence of update_room_capacity calls, check_availability
\* labels a room FULL whenever its open occupancy count is at least its
\* capacity, and otherwise reports a positive number of beds available; it
\* never reports a negative number of beds.
C27_FullOrPositiveBeds ==
    (/\ call.op = "check_availability"
     /\ result.kind = "return") =>
       \A k \in DOMAIN rooms :
          \A j \in LinesAbout(result.lines, rooms[k]) :
             IF OpenCount(occupancy, rooms[k].room_id) >= rooms[k].capacity
             THEN result.lines[j].status = "FULL"
             ELSE /\ result.lines[j].status = "beds available"
                  /\ result.lines[j].beds > 0
====
